---- MODULE Spec2Model ----
(***************************************************************************)
(* Model of the Python backend of the NFT royalty distribution platform:   *)
(* the Flask routes of app.py and the ContractHandler of                   *)
(* contract_handler.py, together with the chain node they talk to.         *)
(*                                                                         *)
(* The node (head block, account nonces, transaction pool, receipts) and   *)
(* the web3 library are the environment: every remote call may raise.      *)
(* Requests are served concurrently (one Flask thread per request), so a   *)
(* handler that makes several node calls whose interleaving matters is     *)
(* split at those calls.                                                   *)
(***************************************************************************)
EXTENDS Integers, Sequences, FiniteSets, TLC

\* ------------------------------------------------------------------ bounds
MaxRequests == 2      \* requests in flight at the same time
MaxBlocks == 1        \* blocks the node produces after start-up

\* ------------------------------------------------------- program constants
LookBack == 100       \* "Last 100 blocks"
NoneValue == -1       \* Python's None where the model needs an integer
SuccessStatus == 1    \* receipt.status == 1

\* ------------------------------------------------------------ input sets
KnownFunctions == {"mint"}                 \* members of the loaded ABI
FunctionNames == KnownFunctions \cup {"bogus"}
Accounts == {"0xA1"}                       \* the caller's (and the key's) address
AccountInputs == Accounts \cup {""}        \* "" : missing or empty
GasEstimates == {21004}                    \* what the node may estimate
GasLimitInputs == {NoneValue, 0, 30000}
AccountByte(a) == IF a = "0xA1" THEN 161 ELSE 0

\* ------------------------------------------------------------- conversions
HexDigits == <<"0", "1", "2", "3", "4", "5", "6", "7",
               "8", "9", "a", "b", "c", "d", "e", "f">>

ByteHex(b) == <<HexDigits[(b \div 16) + 1], HexDigits[(b % 16) + 1]>>

RECURSIVE BytesHex(_)
\* bytes.hex(): two lowercase digits per byte, no prefix
BytesHex(bs) == IF bs = <<>> THEN <<>> ELSE ByteHex(Head(bs)) \o BytesHex(Tail(bs))

\* HexBytes.hex() of the library's hash type: "0x" and the digits
HexBytesHex(bs) == <<"0", "x">> \o BytesHex(bs)

\* int(gas_limit * 1.2): for every estimate below 2^50 the double product
\* truncates to the same integer as 12 * g div 10
GasWithBuffer(g) == (g * 12) \div 10

\* web3.to_wei(n, 'gwei')
ToWeiGwei(n) == n * 1000000000

\* ------------------------------------------------------------------ state
VARIABLES
    config,      \* Config(): CONTRACT_ADDRESS, ABI file, PRIVATE_KEY, MAX_GAS_PRICE
    phase,       \* position of ContractHandler.__init__
    web3,        \* self.web3
    connected,   \* what web3.is_connected() answered at initialization
    contract,    \* self.contract
    head,        \* node: eth.block_number
    nonces,      \* node: mined transaction count of each account
    pool,        \* node: accepted, not yet mined transactions
    receipts,    \* node: receipts of the mined transactions
    reqs,        \* the write and event requests in flight, by slot
    last         \* the most recently finished request and its outcome

vars == <<config, phase, web3, connected, contract, head, nonces, pool,
          receipts, reqs, last>>

Slots == 1..MaxRequests
MaxHead == LookBack + MaxBlocks

\* a block identifier as a caller may give it
Latest == [kind |-> "latest", n |-> 0]
Malformed == [kind |-> "bad", n |-> 0]
Num(n) == [kind |-> "num", n |-> n]

NoTx == [from |-> "", nonce |-> 0, fn |-> "", gas |-> 0, gasPrice |-> 0]
NoReceipt == [tx |-> NoTx, status |-> 0, blockNumber |-> 0, gasUsed |-> 0]
NoStatus == [status |-> "", block_number |-> NoneValue, gas_used |-> NoneValue,
             transaction_hash |-> <<>>, confirmations |-> 0]
NoResult == [kind |-> "none", n |-> 0, s |-> <<>>, items |-> <<>>]

\* the node's hash of a transaction: one value per distinct transaction
TxHash(tx) == <<AccountByte(tx.from), tx.nonce, (tx.gas \div 256) % 256, tx.gas % 256>>

NoOutcome ==
    [op |-> "none", layer |-> "api", fn |-> "", account |-> "",
     gas_limit |-> NoneValue, query |-> <<>>, from_block |-> Latest,
     to_block |-> Latest,
     called |-> FALSE, usedContract |-> FALSE, nodeCalls |-> 0,
     estimated |-> FALSE, estimate |-> 0, broadcast |-> 0,
     failure |-> "none", raised |-> FALSE, success |-> FALSE, message |-> "",
     kind |-> "none", result |-> NoResult, hex |-> <<>>, tx |-> NoTx,
     status |-> NoStatus, events |-> <<>>, gas |-> 0,
     h1 |-> NoneValue, h2 |-> NoneValue, filtered |-> FALSE,
     from_resolved |-> Latest, to_resolved |-> Latest,
     receiptFound |-> FALSE, receipt |-> NoReceipt]

\* a slot: where the request stands and what it has gathered so far
IdleReq == [pc |-> "idle", o |-> NoOutcome]

Configs ==
    [CONTRACT_ADDRESS : {"", "0xC0", "junk"},
     ABI : {"missing", "valid", "corrupt"},
     PRIVATE_KEY : {"", "key"},
     MAX_GAS_PRICE : {2}]

InitWith(heads) ==
    /\ config \in Configs
    /\ phase = "new"
    /\ web3 = "None"
    /\ connected = "unchecked"
    /\ contract = "None"
    /\ head \in heads
    /\ nonces = [a \in Accounts |-> 0]
    /\ pool = {}
    /\ receipts = {}
    /\ reqs = [i \in Slots |-> IdleReq]
    /\ last = NoOutcome

\* the chain is younger than the look-back of the event lookup, or as old
Init == InitWith({LookBack - 1, LookBack})

\* the same on a chain that is LookBack blocks long
InitGrown == InitWith({LookBack})

\* --------------------------------------------------- ContractHandler.__init__
CheckSkipped(answer) == "unchecked"

\* The connectivity check: its answer is logged and nothing else.
CheckConnection(answer) == IF answer THEN "yes" ELSE "no"

\* initialize_web3: build the handle, ask whether the node answers; only an
\* exception stops the process.
InitializeWeb3 ==
    /\ phase = "new"
    /\ \/ /\ \E answer \in BOOLEAN : connected' = CheckConnection(answer)
          /\ web3' = "handle"
          /\ phase' = "web3"
       \/ /\ phase' = "crashed_web3"
          /\ UNCHANGED <<web3, connected>>
    /\ UNCHANGED <<config, contract, head, nonces, pool, receipts, reqs, last>>

\* load_contract: what it does for a configuration
LoadOutcome(cfg) ==
    IF cfg.CONTRACT_ADDRESS = "" THEN "no_contract"
    ELSE IF cfg.ABI = "missing" THEN "no_contract"
    ELSE IF cfg.ABI = "corrupt" THEN "raise"
    ELSE IF cfg.CONTRACT_ADDRESS = "junk" THEN "raise"
    ELSE "bound"

LoadContract ==
    /\ phase = "web3"
    /\ contract' = IF LoadOutcome(config) = "bound" THEN "bound" ELSE "None"
    /\ phase' = IF LoadOutcome(config) = "raise" THEN "crashed_load" ELSE "serving"
    /\ UNCHANGED <<config, web3, connected, head, nonces, pool, receipts, reqs, last>>

\* ------------------------------------------------------- shared by handlers
GuardDropped(c) == FALSE

\* `if not self.contract`
NotInitialized(c) == c = "None"

AnyNameResolves(fn) == TRUE

\* getattr(self.contract.functions, function_name) finds a member
FunctionResolves(fn) == fn \in KnownFunctions

\* the library accepts the string as an address
ValidAddress(a) == a \in Accounts

KeyAssumed(cfg) == TRUE

\* `if self.config.PRIVATE_KEY`
HasPrivateKey(cfg) == cfg.PRIVATE_KEY # ""

\* an exception leaves the access layer; the route answers a failure envelope
Raise(o, why, msg) ==
    [o EXCEPT !.failure = why, !.raised = TRUE, !.success = FALSE, !.message = msg]

\* the route refuses before it calls the access layer
Refuse(o, msg) ==
    [o EXCEPT !.failure = "input", !.called = FALSE, !.success = FALSE, !.message = msg]

FreeSlot(i) == reqs[i].pc = "idle" /\ \A j \in Slots : j < i => reqs[j].pc # "idle"

Finish(i, o) ==
    /\ last' = o
    /\ reqs' = [reqs EXCEPT ![i] = IdleReq]

Serving == phase = "serving"

\* ------------------------------------------------------------- read call
NoRaw == [kind |-> "none", n |-> 0, b |-> <<>>, items |-> <<>>]

RawResults ==
    {[kind |-> "int", n |-> 7, b |-> <<>>, items |-> <<>>],
     [kind |-> "bytes", n |-> 0, b |-> <<10, 255>>, items |-> <<>>],
     [kind |-> "list", n |-> 0, b |-> <<>>, items |->
        <<[kind |-> "bytes", n |-> 0, b |-> <<1>>, items |-> <<>>],
          [kind |-> "int", n |-> 3, b |-> <<>>, items |-> <<>>]>>]}

RECURSIVE FormatResult(_)
\* _format_result: sequences element by element, bytes to hex, scalars as is
FormatResult(r) ==
    IF r.kind = "list"
    THEN [kind |-> "list", n |-> 0, s |-> <<>>,
          items |-> [k \in 1..Len(r.items) |-> FormatResult(r.items[k])]]
    ELSE IF r.kind = "bytes"
    THEN [kind |-> "str", n |-> 0, s |-> BytesHex(r.b), items |-> <<>>]
    ELSE [kind |-> r.kind, n |-> r.n, s |-> <<>>, items |-> <<>>]

\* call_read_function as read_contract calls it
ReadOutcome(fn, ok, raw) ==
    LET o == [NoOutcome EXCEPT !.op = "read", !.fn = fn, !.called = TRUE]
        u == [o EXCEPT !.usedContract = TRUE]
    IN  IF NotInitialized(contract) THEN Raise(o, "not_initialized", "Contract not initialized")
        ELSE IF ~FunctionResolves(fn) THEN Raise(u, "unknown_function", "function not found in ABI")
        ELSE IF ~ok THEN Raise([u EXCEPT !.nodeCalls = 1], "node", "node error")
        ELSE [u EXCEPT !.nodeCalls = 1, !.success = TRUE, !.kind = "result",
                       !.result = FormatResult(raw)]

ReadContract ==
    /\ Serving
    /\ \E fn \in FunctionNames :
          \/ last' = ReadOutcome(fn, FALSE, NoRaw)
          \/ \E raw \in RawResults : last' = ReadOutcome(fn, TRUE, raw)
    /\ UNCHANGED <<config, phase, web3, connected, contract, head, nonces, pool,
                   receipts, reqs>>

\* -------------------------------------------------------- gas estimate
\* estimate_gas, called on the access layer directly (no route serves it)
EstimateOutcome(fn, account, ok, est) ==
    LET o == [NoOutcome EXCEPT !.op = "estimate", !.layer = "handler", !.fn = fn,
                               !.account = account, !.called = TRUE]
        u == [o EXCEPT !.usedContract = TRUE]
    IN  IF NotInitialized(contract) THEN Raise(o, "not_initialized", "Contract not initialized")
        ELSE IF ~FunctionResolves(fn) THEN Raise(u, "unknown_function", "function not found in ABI")
        ELSE IF ~ValidAddress(account) \/ ~ok
        THEN Raise([u EXCEPT !.nodeCalls = 1], "node", "node error")
        ELSE [u EXCEPT !.nodeCalls = 1, !.success = TRUE, !.kind = "gas",
                       !.estimated = TRUE, !.estimate = est, !.gas = est]

EstimateGas ==
    /\ Serving
    /\ \E fn \in FunctionNames, account \in Accounts :
          \/ last' = EstimateOutcome(fn, account, FALSE, 0)
          \/ \E est \in GasEstimates : last' = EstimateOutcome(fn, account, TRUE, est)
    /\ UNCHANGED <<config, phase, web3, connected, contract, head, nonces, pool,
                   receipts, reqs>>

\* ------------------------------------------------------------ write call
\* the access layer returns; write_contract adds its message to the envelope
Return(o, kind) ==
    [o EXCEPT !.success = TRUE, !.kind = kind,
              !.message = IF o.layer = "api" THEN "Transaction sent successfully" ELSE ""]

AccountNeverMissing(a) == FALSE

\* `if not account_address` in write_contract
AccountMissing(a) == a = ""

\* `if not gas_limit`
NeedsEstimate(g) == g = NoneValue \/ g = 0

\* write_contract up to the call, then call_write_function up to the gas limit
WriteStart(layer, fn, account, gl, ok, est) ==
    LET o == [NoOutcome EXCEPT !.op = "write", !.layer = layer, !.fn = fn,
                               !.account = account, !.gas_limit = gl]
        c == [o EXCEPT !.called = TRUE]
        u == [c EXCEPT !.usedContract = TRUE]
    IN  IF layer = "api" /\ AccountMissing(account)
        THEN Refuse(o, "Account address required")
        ELSE IF NotInitialized(contract)
        THEN Raise(c, "not_initialized", "Contract not initialized")
        ELSE IF ~FunctionResolves(fn)
        THEN Raise(u, "unknown_function", "function not found in ABI")
        ELSE IF NeedsEstimate(gl)
        THEN IF ~ValidAddress(account) \/ ~ok
             THEN Raise([u EXCEPT !.nodeCalls = 1], "node", "node error")
             ELSE [u EXCEPT !.nodeCalls = 1, !.estimated = TRUE, !.estimate = est,
                            !.gas = GasWithBuffer(est)]
        ELSE [u EXCEPT !.gas = gl]

\* the request either ends at once or goes on to the nonce lookup
WriteBegin(i, layer, fn, account, gl) ==
    /\ Serving
    /\ FreeSlot(i)
    /\ \E est \in GasEstimates \cup {0} :
          LET o == WriteStart(layer, fn, account, gl, est # 0, est)
          IN  IF o.failure = "none"
              THEN /\ reqs' = [reqs EXCEPT ![i] = [pc |-> "nonce", o |-> o]]
                   /\ UNCHANGED last
              ELSE Finish(i, o)
    /\ UNCHANGED <<config, phase, web3, connected, contract, head, nonces, pool, receipts>>

\* POST /api/contract/write/<function_name>: the route passes no gas limit
WriteRequest(i) ==
    \E fn \in FunctionNames, account \in AccountInputs :
        WriteBegin(i, "api", fn, account, NoneValue)

\* call_write_function called on the access layer directly, gas limit and all
WriteCall(i) ==
    \E fn \in FunctionNames, account \in Accounts, gl \in GasLimitInputs :
        WriteBegin(i, "handler", fn, account, gl)

CountWithPending(account) ==
    nonces[account] + Cardinality({t \in pool : t.from = account})

\* eth.get_transaction_count(account_address): the mined count
TransactionCount(account) == nonces[account]

\* the transaction dict of build_transaction
BuildTransaction(o, nonce) ==
    [from |-> o.account, nonce |-> nonce, fn |-> o.fn, gas |-> o.gas,
     gasPrice |-> ToWeiGwei(config.MAX_GAS_PRICE)]

\* the nonce lookup and build_transaction; without a private key the call ends
\* here and returns the transaction dict
WriteBuilt(o, fault) ==
    IF ~ValidAddress(o.account) \/ fault = "count"
    THEN Raise([o EXCEPT !.nodeCalls = @ + 1], "node", "node error")
    ELSE IF fault = "build"
    THEN Raise([o EXCEPT !.nodeCalls = @ + 2], "node", "node error")
    ELSE LET b == [o EXCEPT !.nodeCalls = @ + 2,
                            !.tx = BuildTransaction(o, TransactionCount(o.account))]
         IN  IF HasPrivateKey(config) THEN b
             ELSE Return(b, "tx_dict")

WriteBuild(i) ==
    /\ reqs[i].pc = "nonce"
    /\ \E fault \in {"none", "count", "build"} :
          LET o == WriteBuilt(reqs[i].o, fault)
          IN  IF o.failure = "none" /\ o.kind = "none"
              THEN /\ reqs' = [reqs EXCEPT ![i] = [pc |-> "send", o |-> o]]
                   /\ UNCHANGED last
              ELSE Finish(i, o)
    /\ UNCHANGED <<config, phase, web3, connected, contract, head, nonces, pool, receipts>>

\* the node takes a transaction whose nonce is the sender's next one and is
\* not already taken by a pooled transaction
NodeAccepts(tx) ==
    /\ tx.nonce = nonces[tx.from]
    /\ \A t \in pool : ~(t.from = tx.from /\ t.nonce = tx.nonce)

\* sign_transaction and send_raw_transaction; the hash comes back as hex
WriteSent(o, okSend) ==
    LET b == [o EXCEPT !.nodeCalls = @ + 1, !.broadcast = @ + 1]
    IN  IF ~okSend THEN Raise(b, "node", "node error")
        ELSE IF ~NodeAccepts(o.tx) THEN Raise(b, "rejected", "nonce already used")
        ELSE Return([b EXCEPT !.hex = HexBytesHex(TxHash(o.tx))], "tx_hash")

WriteSend(i) ==
    /\ reqs[i].pc = "send"
    /\ \E okSend \in BOOLEAN :
          LET o == WriteSent(reqs[i].o, okSend)
          IN  /\ Finish(i, o)
              /\ pool' = IF o.kind = "tx_hash" THEN pool \cup {o.tx} ELSE pool
    /\ UNCHANGED <<config, phase, web3, connected, contract, head, nonces, receipts>>

\* ----------------------------------------------------- transaction status
Known == pool \cup {r.tx : r \in receipts}

UnknownHash == <<"0", "x", "0", "0">>

StatusQueries == {HexBytesHex(TxHash(t)) : t \in Known} \cup {UnknownHash}

\* "success" if receipt.status == 1 else "failed"
StatusName(code) == IF code = SuccessStatus THEN "success" ELSE "failed"

\* the dict built from a receipt
ReceiptStatus(q, r, current) ==
    [status |-> StatusName(r.status), block_number |-> r.blockNumber,
     gas_used |-> r.gasUsed, transaction_hash |-> q,
     confirmations |-> current - r.blockNumber]

\* the dict of the bare except
PendingStatus(q) ==
    [status |-> "pending", transaction_hash |-> q, block_number |-> NoneValue,
     gas_used |-> NoneValue, confirmations |-> 0]

\* get_transaction_status: the transaction, then inside the inner try the
\* receipt and the current block number
StatusOutcome(q, fault) ==
    LET o == [NoOutcome EXCEPT !.op = "status", !.query = q, !.called = TRUE,
                               !.nodeCalls = 1]
        found == {r \in receipts : HexBytesHex(TxHash(r.tx)) = q}
    IN  IF fault = "transaction" THEN Raise(o, "node", "node error")
        ELSE IF \A t \in Known : HexBytesHex(TxHash(t)) # q
        THEN Raise(o, "unknown_hash", "transaction not found")
        ELSE IF found = {} \/ fault = "receipt"
        THEN [o EXCEPT !.nodeCalls = 2, !.success = TRUE, !.kind = "status",
                       !.status = PendingStatus(q)]
        ELSE LET r == CHOOSE x \in found : TRUE
                 f == [o EXCEPT !.success = TRUE, !.kind = "status", !.nodeCalls = 3,
                                !.receiptFound = TRUE, !.receipt = r, !.h1 = head]
             IN  IF fault = "block_number"
                 THEN [f EXCEPT !.failure = "node", !.status = PendingStatus(q)]
                 ELSE [f EXCEPT !.status = ReceiptStatus(q, r, head)]

TransactionStatus ==
    /\ Serving
    /\ \E q \in StatusQueries, fault \in {"none", "transaction", "receipt", "block_number"} :
          last' = StatusOutcome(q, fault)
    /\ UNCHANGED <<config, phase, web3, connected, contract, head, nonces, pool,
                   receipts, reqs>>

\* ------------------------------------------------------------ event lookup
FromInputs == {Latest, Num(LookBack), Malformed}
ToInputs == {Latest, Num(LookBack + 1)}

ResolveFromHead(current) == Num(current)

\* `from_block = self.web3.eth.block_number - 100`
ResolveFrom(current) == Num(current - LookBack)

\* `to_block = self.web3.eth.block_number`
ResolveTo(current) == Num(current)

EventsFailureRaised(o, why) == Raise(o, why, "node error")

\* the failure policy of get_contract_events: the except returns []
EventsFailed(o, why) ==
    [o EXCEPT !.failure = why, !.raised = FALSE, !.success = TRUE,
              !.kind = "events", !.events = <<>>]

\* the guard, then the start of the range
EventsStart(layer, from, to, ok) ==
    LET o == [NoOutcome EXCEPT !.op = "events", !.layer = layer, !.from_block = from,
                               !.to_block = to, !.called = TRUE]
        u == [o EXCEPT !.usedContract = TRUE]
    IN  IF NotInitialized(contract)
        THEN Raise(o, "not_initialized", "Contract not initialized")
        ELSE IF from = Latest
        THEN IF ~ok THEN EventsFailed([u EXCEPT !.nodeCalls = 1], "node")
             ELSE [u EXCEPT !.nodeCalls = 1, !.h1 = head, !.from_resolved = ResolveFrom(head)]
        ELSE [u EXCEPT !.from_resolved = from]

EventsBegin(i, layer, from, to) ==
    /\ Serving
    /\ FreeSlot(i)
    /\ \E ok \in BOOLEAN :
          LET o == EventsStart(layer, from, to, ok)
          IN  IF o.failure = "none"
              THEN /\ reqs' = [reqs EXCEPT ![i] = [pc |-> "range", o |-> o]]
                   /\ UNCHANGED last
              ELSE Finish(i, o)
    /\ UNCHANGED <<config, phase, web3, connected, contract, head, nonces, pool, receipts>>

\* GET /api/contract/events: the route passes from_block alone
EventsRequest(i) == \E from \in FromInputs : EventsBegin(i, "api", from, Latest)

\* get_contract_events called on the access layer directly
EventsCall(i) == \E to \in ToInputs \ {Latest} : EventsBegin(i, "handler", Latest, to)

\* the receipts of successful transactions mined in blocks lo..hi, by block
RECURSIVE LogsIn(_, _)
LogsIn(lo, hi) ==
    IF lo > hi THEN <<>>
    ELSE LET here == {r \in receipts : r.blockNumber = lo /\ r.status = SuccessStatus}
         IN  (IF here = {} THEN <<>> ELSE <<CHOOSE r \in here : TRUE>>) \o LogsIn(lo + 1, hi)

\* one entry of the returned list
FormatEvent(r) ==
    [event |-> r.tx.fn, args |-> r.tx.from,
     transaction_hash |-> HexBytesHex(TxHash(r.tx)),
     block_number |-> r.blockNumber, log_index |-> 0]

\* the node takes a filter whose bounds are block numbers from 0 on
RangeWellFormed(from, to) == from.kind = "num" /\ to.kind = "num" /\ from.n >= 0 /\ to.n >= 0

Max(a, b) == IF a > b THEN a ELSE b

\* the end of the range, the filter and its entries
EventsDone(o, fault) ==
    LET needTo == o.to_block = Latest
        a == IF needTo THEN [o EXCEPT !.nodeCalls = @ + 1] ELSE o
    IN  IF needTo /\ fault = "block_number" THEN EventsFailed(a, "node")
        ELSE LET to == IF needTo THEN ResolveTo(head) ELSE o.to_block
                 b == [a EXCEPT !.nodeCalls = @ + 1, !.filtered = TRUE,
                                !.h2 = IF needTo THEN head ELSE NoneValue,
                                !.to_resolved = to]
             IN  IF ~RangeWellFormed(o.from_resolved, to) THEN EventsFailed(b, "range")
                 ELSE IF fault = "filter" THEN EventsFailed(b, "node")
                 ELSE LET logs == LogsIn(Max(o.from_resolved.n, LookBack), to.n)
                      IN  [b EXCEPT !.success = TRUE, !.kind = "events",
                                    !.events = [k \in 1..Len(logs) |-> FormatEvent(logs[k])]]

EventsFinish(i) ==
    /\ reqs[i].pc = "range"
    /\ \E fault \in {"none", "block_number", "filter"} :
          Finish(i, EventsDone(reqs[i].o, fault))
    /\ UNCHANGED <<config, phase, web3, connected, contract, head, nonces, pool, receipts>>

\* ---------------------------------------------------------------- the node
\* a block without transactions of interest
EmptyBlock ==
    /\ head < MaxHead
    /\ head' = head + 1
    /\ UNCHANGED <<config, phase, web3, connected, contract, nonces, pool, receipts,
                   reqs, last>>

\* a pooled transaction is mined: it succeeds or reverts
MineTransaction ==
    /\ head < MaxHead
    /\ \E t \in pool, code \in {0, SuccessStatus} :
          /\ t.nonce = nonces[t.from]
          /\ receipts' = receipts \cup
                {[tx |-> t, status |-> code, blockNumber |-> head + 1,
                  gasUsed |-> IF code = SuccessStatus THEN t.gas \div 2 ELSE t.gas]}
          /\ pool' = pool \ {t}
          /\ nonces' = [nonces EXCEPT ![t.from] = @ + 1]
    /\ head' = head + 1
    /\ UNCHANGED <<config, phase, web3, connected, contract, reqs, last>>

\* the caller signs a returned transaction dict and sends it to the node itself
ExternalSend ==
    /\ last.op = "write"
    /\ last.kind = "tx_dict"
    /\ NodeAccepts(last.tx)
    /\ pool' = pool \cup {last.tx}
    /\ UNCHANGED <<config, phase, web3, connected, contract, head, nonces, receipts,
                   reqs, last>>

Next ==
    \/ InitializeWeb3
    \/ LoadContract
    \/ ReadContract
    \/ EstimateGas
    \/ TransactionStatus
    \/ \E i \in Slots : WriteRequest(i)
    \/ \E i \in Slots : WriteCall(i)
    \/ \E i \in Slots : WriteBuild(i)
    \/ \E i \in Slots : WriteSend(i)
    \/ \E i \in Slots : EventsRequest(i)
    \/ \E i \in Slots : EventsCall(i)
    \/ \E i \in Slots : EventsFinish(i)
    \/ EmptyBlock
    \/ MineTransaction
    \/ ExternalSend

Spec == Init /\ [][Next]_vars

\* ------------------------------------------------------------- workloads
\* Each workload is Spec with the clients held to some of the operations.

\* the write route, the status route and the node mining what was sent
NextWrites ==
    \/ InitializeWeb3
    \/ LoadContract
    \/ ReadContract
    \/ TransactionStatus
    \/ \E i \in Slots : WriteRequest(i)
    \/ \E i \in Slots : WriteBuild(i)
    \/ \E i \in Slots : WriteSend(i)
    \/ MineTransaction
    \/ ExternalSend

SpecWrites == InitGrown /\ [][NextWrites]_vars

\* direct calls of the access layer's write and estimate operations
NextDirect ==
    \/ InitializeWeb3
    \/ LoadContract
    \/ EstimateGas
    \/ \E i \in Slots : WriteCall(i)
    \/ \E i \in Slots : WriteBuild(i)
    \/ \E i \in Slots : WriteSend(i)

SpecDirect == InitGrown /\ [][NextDirect]_vars

\* every operation against a process that started without a contract
InitDegraded == InitGrown /\ (config.CONTRACT_ADDRESS = "" \/ config.ABI = "missing")

NextDegraded ==
    \/ InitializeWeb3
    \/ LoadContract
    \/ ReadContract
    \/ EstimateGas
    \/ TransactionStatus
    \/ \E i \in Slots : WriteRequest(i)
    \/ \E i \in Slots : WriteCall(i)
    \/ \E i \in Slots : EventsRequest(i)
    \/ \E i \in Slots : EventsCall(i)
    \/ EmptyBlock

SpecDegraded == InitDegraded /\ [][NextDegraded]_vars

\* event lookups while the chain grows
NextEvents ==
    \/ InitializeWeb3
    \/ LoadContract
    \/ \E i \in Slots : EventsRequest(i)
    \/ \E i \in Slots : EventsCall(i)
    \/ \E i \in Slots : EventsFinish(i)
    \/ EmptyBlock

SpecEvents == Init /\ [][NextEvents]_vars

\* ------------------------------------------------------------ properties
InFlight == {reqs[i].o : i \in {j \in Slots : reqs[j].pc # "idle"}}

\* C1: a write request whose account_address is missing or empty is answered
\* with a failure envelope that carries a message, and the access layer's write
\* call is not invoked for it: no gas estimate, no nonce lookup, no broadcast.
C1_MissingAccountRefused ==
    /\ (last.op = "write" /\ last.layer = "api" /\ last.account = "") =>
          /\ ~last.success
          /\ last.message # ""
          /\ ~last.called
          /\ ~last.estimated
          /\ last.nodeCalls = 0
          /\ last.broadcast = 0
          /\ last.kind = "none"
    /\ \A o \in InFlight : o.op = "write" /\ o.layer = "api" => o.account # ""

C1_Witness ==
    /\ contract = "bound"
    /\ last.op = "write" /\ last.layer = "api" /\ last.account = ""
    /\ last.fn \in KnownFunctions
    /\ last.message = "Account address required"

\* C2: a read request, and a write request with an account address, for a
\* function name that is no member of the loaded interface ends with
\* success = false and a non-empty message, carries neither a result nor a
\* tx_hash, and broadcasts nothing.
C2_UnknownFunctionFails ==
    /\ (/\ last.op \in {"read", "write"}
        /\ ~(last.fn \in {"mint"})
        /\ (last.op = "write" => last.account # "")) =>
          /\ ~last.success
          /\ last.message # ""
          /\ last.kind = "none"
          /\ last.result = NoResult
          /\ last.hex = <<>>
          /\ last.tx = NoTx
          /\ last.broadcast = 0
    /\ \A o \in InFlight : o.op = "write" => o.fn \in {"mint"}

C2_Witness ==
    /\ contract = "bound"
    /\ last.op = "write" /\ last.account # "" /\ last.fn = "bogus"
    /\ last.called
    /\ ~last.success

\* C3: for a known transaction hash the status lookup reports "success" for a
\* receipt of status 1 and "failed" for one of status 0, each with the
\* receipt's block number, gas used and confirmations = current block minus
\* receipt block, and reports "pending" (confirmations 0, no block number, no
\* gas used) exactly when no receipt is obtainable.
C3_StatusFollowsReceipt ==
    (last.op = "status" /\ last.kind = "status") =>
        /\ (last.receiptFound /\ last.receipt.status = 1) => last.status.status = "success"
        /\ (last.receiptFound /\ last.receipt.status = 0) => last.status.status = "failed"
        /\ last.receiptFound =>
              /\ last.status.block_number = last.receipt.blockNumber
              /\ last.status.gas_used = last.receipt.gasUsed
              /\ last.status.confirmations = last.h1 - last.receipt.blockNumber
        /\ (last.status.status = "pending") <=> ~last.receiptFound
        /\ last.status.status = "pending" =>
              /\ last.status.confirmations = 0
              /\ last.status.block_number = NoneValue
              /\ last.status.gas_used = NoneValue

\* C4 as claimed: every failure of the event lookup, whatever its cause, ends
\* in an empty list and a success envelope, never in a failure envelope.
C4_EveryFailureIsEmptySuccess ==
    (last.op = "events" /\ last.failure # "none") =>
        /\ ~last.raised
        /\ last.success
        /\ last.kind = "events"
        /\ last.events = <<>>

\* C4 as amended: a failure after the contract check (a malformed block range,
\* a node error) ends in an empty list and a success envelope; a lookup with
\* no contract loaded raises and is answered with a failure envelope.
C4_FailureAfterGuardIsEmptySuccess ==
    last.op = "events" =>
        /\ last.failure \in {"none", "node", "range", "not_initialized"}
        /\ last.failure \in {"node", "range"} =>
              /\ ~last.raised
              /\ last.success
              /\ last.kind = "events"
              /\ last.events = <<>>
              /\ last.message = ""
        /\ last.failure = "not_initialized" =>
              /\ last.raised
              /\ ~last.success
              /\ last.kind = "none"
              /\ last.message = "Contract not initialized"

C4_Witness ==
    /\ last.op = "events" /\ last.layer = "api"
    /\ last.from_block = Malformed
    /\ last.failure = "range"
    /\ last.success /\ last.events = <<>>

\* C5: when the contract address is unset or the ABI file is missing the
\* process still starts, with no contract loaded, and every later read call,
\* write call, gas estimate and event lookup ends with an error (a failure
\* envelope at the route) without a call to the node.
C5_NoContractEveryCallFails ==
    (config.CONTRACT_ADDRESS = "" \/ config.ABI = "missing") =>
        /\ phase # "crashed_load"
        /\ contract = "None"
        /\ phase = "serving" =>
              /\ \A i \in Slots : reqs[i].pc = "idle"
              /\ last.op \in {"read", "write", "estimate", "events"} =>
                    /\ ~last.success
                    /\ last.message # ""
                    /\ last.called => last.raised
                    /\ ~last.usedContract
                    /\ last.nodeCalls = 0
                    /\ last.broadcast = 0
                    /\ last.kind = "none"

C5_Witness ==
    /\ phase = "serving" /\ contract = "None"
    /\ config.CONTRACT_ADDRESS # "" /\ config.ABI = "missing"
    /\ last.op = "events" /\ last.raised
    /\ last.message = "Contract not initialized"

HexValue(c) == CHOOSE k \in 0..15 : HexDigits[k + 1] = c

RECURSIVE DecodeHex(_)
DecodeHex(s) ==
    IF Len(s) < 2 THEN <<>>
    ELSE <<16 * HexValue(s[1]) + HexValue(s[2])>> \o DecodeHex(SubSeq(s, 3, Len(s)))

\* C6: a successful write call broadcasts if and only if a private key is
\* configured: with a key one signed transaction is sent and its hash comes
\* back as a hex string; without one nothing is sent and the unsigned
\* transaction dict comes back instead.
C6_BroadcastIffKey ==
    /\ (last.op = "write" /\ last.success) =>
          IF config.PRIVATE_KEY # ""
          THEN /\ last.broadcast = 1
               /\ last.kind = "tx_hash"
               /\ SubSeq(last.hex, 1, 2) = <<"0", "x">>
               /\ Len(last.hex) = 10
               /\ \A k \in 3..Len(last.hex) : \E d \in 1..16 : HexDigits[d] = last.hex[k]
               /\ DecodeHex(SubSeq(last.hex, 3, Len(last.hex))) = TxHash(last.tx)
          ELSE /\ last.broadcast = 0
               /\ last.kind = "tx_dict"
               /\ last.hex = <<>>
               /\ last.tx.from = last.account
               /\ last.tx.gas = last.gas
    /\ config.PRIVATE_KEY = "" =>
          /\ last.broadcast = 0
          /\ \A o \in InFlight : o.broadcast = 0
          /\ \A i \in Slots : reqs[i].pc # "send"

C6_Witness ==
    /\ config.PRIVATE_KEY # ""
    /\ last.op = "write" /\ last.success /\ last.kind = "tx_hash"
    /\ last.tx \in pool

\* C7: nothing serializes the nonce lookup and the submission of write calls
\* from one account: a built transaction carries the account's mined count as
\* the node gave it (the current count, or an older one if a transaction of
\* that nonce was mined since), whatever other write calls are in flight, so
\* two overlapping calls hold transactions with the same nonce.
C7_NonceIsTheMinedCount ==
    \A i \in Slots : reqs[i].pc = "send" =>
        LET t == reqs[i].o.tx
        IN  \/ t.nonce = nonces[t.from]
            \/ /\ t.nonce < nonces[t.from]
               /\ \E r \in receipts : r.tx.from = t.from /\ r.tx.nonce = t.nonce

C7_Witness ==
    /\ config.PRIVATE_KEY # ""
    /\ \E i, j \in Slots :
          /\ i # j
          /\ reqs[i].pc = "send" /\ reqs[j].pc = "send"
          /\ reqs[i].o.tx.from = reqs[j].o.tx.from
          /\ reqs[i].o.tx.nonce = reqs[j].o.tx.nonce

Used == last.usedContract \/ \E o \in InFlight : o.usedContract

\* C8 as claimed: whenever an operation uses the contract handle, the node was
\* connected at initialization.
C8_ConnectedWhenUsed == Used => connected = "yes"

\* C8 as amended: the connection handle is built and its connectivity asked
\* for before the contract is bound, and an operation uses the contract handle
\* only after both; the answer of the connectivity check is not required to be
\* yes.
C8_HandleBeforeContract ==
    /\ contract = "bound" => web3 = "handle" /\ connected \in {"yes", "no"}
    /\ Used =>
          /\ phase = "serving"
          /\ web3 = "handle"
          /\ contract = "bound"
          /\ connected \in {"yes", "no"}

C8_Witness == last.usedContract /\ last.success /\ connected = "no"

\* C9: with no gas limit given the transaction's gas limit is the integer part
\* of 1.2 times the estimate; a given gas limit is used unchanged and nothing
\* is estimated.
C9_GasLimit ==
    \A o \in InFlight \cup {last} :
        (o.op = "write" /\ o.failure = "none" /\ o.usedContract) =>
            IF o.gas_limit = NoneValue
            THEN o.estimated /\ o.gas = (12 * o.estimate) \div 10
            ELSE ~o.estimated /\ o.gas = o.gas_limit /\ o.nodeCalls \in {0, 2, 3}

\* C10 as claimed: a lookup with both defaults filters the range
\* [head - 100, head] of one head.
C10_RangeOfOneHead ==
    (/\ last.op = "events" /\ last.filtered
     /\ last.from_block = Latest /\ last.to_block = Latest) =>
        /\ last.from_resolved.n = last.to_resolved.n - 100
        /\ last.h1 = last.h2

\* C10 as amended: a from-block of "latest" becomes the head read first minus
\* 100, a to-block of "latest" the head read second, which is the same head or
\* a later one; any other from-block is used as given.
C10_RangeOfTwoReads ==
    \A o \in InFlight \cup {last} :
        o.op = "events" /\ o.usedContract =>
            /\ (o.from_block = Latest /\ o.h1 # NoneValue) =>
                  o.from_resolved = [kind |-> "num", n |-> o.h1 - 100]
            /\ o.from_block # Latest => o.from_resolved = o.from_block /\ o.h1 = NoneValue
            /\ o.filtered =>
                  /\ o.to_block = Latest =>
                        o.to_resolved = [kind |-> "num", n |-> o.h2]
                  /\ o.to_block # Latest => o.to_resolved = o.to_block
                  /\ (o.from_block = Latest /\ o.to_block = Latest) =>
                        /\ o.h1 <= o.h2
                        /\ o.to_resolved.n - o.from_resolved.n >= 100

C10_Witness ==
    /\ last.op = "events" /\ last.filtered
    /\ last.from_block = Latest /\ last.to_block = Latest
    /\ last.h2 > last.h1
    /\ last.failure = "none"

====
